---- MODULE Spec2Model ----
(***************************************************************************)
(* The SSD align/leap engine of ssd_core/core/ssd_core.cpp as a state      *)
(* machine.                                                                *)
(*                                                                         *)
(* Numbers.  The program computes in IEEE doubles.  Here a double is an    *)
(* integer count of thousandths (SCALE = 1000 stands for 1.0), and every   *)
(* product, quotient, exp, log and sqrt rounds to that grid.  The          *)
(* temperature T alone is kept in millionths (TSCALE), because the code    *)
(* floors it at 1e-6 and compares it with 1e-8.  Constants of the code     *)
(* below the grid (1e-6, 1e-8, 1e-12) enter through the comparison or the  *)
(* floor they take part in, never rounded to 0 or to 1.                    *)
(*                                                                         *)
(* Random source.  std::mt19937_64 is a deterministic generator held in    *)
(* the handle; here it is a small full-period congruential generator held  *)
(* in the handle, and every draw advances it by one.                       *)
(***************************************************************************)
EXTENDS Integers, Sequences, FiniteSets, TLC

VARIABLES
    hs,      \* the caller's handles: hs[i] is the SSDHandle behind pointer i
    tel,     \* the caller's SSDTelemetry records, one per handle
    last,    \* the last call made: its arguments, the handle before it, its draws
    jumpPi,  \* per handle, the policy its most recent jump computed (1/N before)
    sm,      \* a direct call of softmax_temp: its arguments and its result
    sys,     \* the NeuroCore of a NeuroSSDSystem, and what its last Ticks installed
    eng,     \* an SSDUniversalEngine, the last call made on it, its callers' threads
    nops     \* the number of calls made so far

vars == <<hs, tel, last, jumpPi, sm, sys, eng, nops>>

----------------------------------------------------------------------------
(* Bounds of the model *)

MaxOps == 3

----------------------------------------------------------------------------
(* Fixed-point arithmetic standing for the doubles of the code *)

SCALE == 1000

TSCALE == 1000000

Abs(x) == IF x < 0 THEN -x ELSE x

Max(a, b) == IF a < b THEN b ELSE a

Min(a, b) == IF b < a THEN b ELSE a

Sgn(x) == IF x < 0 THEN -1 ELSE 1

\* a * b on the grid, rounded to nearest
MulFx(a, b) == Sgn(a) * Sgn(b) * ((2 * Abs(a) * Abs(b) + SCALE) \div (2 * SCALE))

\* a / b on the grid (b # 0), rounded to nearest
DivFx(a, b) == Sgn(a) * Sgn(b) * ((2 * Abs(a) * SCALE + Abs(b)) \div (2 * Abs(b)))

\* a / n for an integer count n > 0, rounded to nearest
DivInt(a, n) == Sgn(a) * ((2 * Abs(a) + n) \div (2 * n))

\* std::sqrt of a sum of squares given in SCALE*SCALE units: bisection on [lo, hi]
RECURSIVE SqrtBis(_, _, _)
SqrtBis(x, lo, hi) ==
    IF lo >= hi THEN lo
    ELSE LET mid == (lo + hi + 1) \div 2
         IN IF mid * mid <= x THEN SqrtBis(x, mid, hi) ELSE SqrtBis(x, lo, mid - 1)

SqrtSq(x) ==
    LET r == SqrtBis(x, 0, 46340)
    IN IF x - r * r > r THEN r + 1 ELSE r

\* exp is saturated outside [-ExpLo, ExpHi]: below, the result is 0 on the
\* grid; above, the result is e^ExpHi, large enough that 1 - exp(-h*dt) is 1
\* on the grid for the step sizes used
ExpLo == 8 * SCALE

ExpHi == 5 * SCALE

\* e^q for the integer part q in -8 .. 5, in SCALE units
ExpIntTable ==
    [q \in -8 .. 5 |->
        CASE q = -8 -> 0     [] q = -7 -> 1     [] q = -6 -> 2
          [] q = -5 -> 7     [] q = -4 -> 18    [] q = -3 -> 50
          [] q = -2 -> 135   [] q = -1 -> 368   [] q = 0 -> 1000
          [] q = 1 -> 2718   [] q = 2 -> 7389   [] q = 3 -> 20086
          [] q = 4 -> 54598  [] q = 5 -> 148413]

\* e^f for 0 <= f < 1 by its Taylor series, in SCALE units
ExpFrac(f) ==
    LET t2 == (f * f) \div (2 * SCALE)
        t3 == (t2 * f) \div (3 * SCALE)
        t4 == (t3 * f) \div (4 * SCALE)
        t5 == (t4 * f) \div (5 * SCALE)
        t6 == (t5 * f) \div (6 * SCALE)
    IN SCALE + f + t2 + t3 + t4 + t5 + t6

\* std::exp(z)
ExpFx(z) ==
    IF z <= -ExpLo THEN 0
    ELSE IF z >= ExpHi THEN ExpIntTable[5]
    ELSE LET q == z \div SCALE
             f == z % SCALE
         IN (2 * ExpIntTable[q] * ExpFrac(f) + SCALE) \div (2 * SCALE)

\* std::log(x) for x > 0: x = m * 2^k with 1 <= m < 2,
\* ln m = 2 atanh((m - 1)/(m + 1))
LN2 == 693

RECURSIVE LogNorm(_, _)
LogNorm(x, k) ==
    IF x < SCALE THEN LogNorm(2 * x, k - 1)
    ELSE IF x >= 2 * SCALE THEN LogNorm(x \div 2, k + 1)
    ELSE <<x, k>>

LogFx(x) ==
    LET mk == LogNorm(x, 0)
        m  == mk[1]
        y  == ((m - SCALE) * SCALE) \div (m + SCALE)
        y3 == (y * y * y) \div (SCALE * SCALE)
        y5 == (y3 * y * y) \div (SCALE * SCALE)
        y7 == (y5 * y * y) \div (SCALE * SCALE)
    IN 2 * (y + y3 \div 3 + y5 \div 5 + y7 \div 7) + mk[2] * LN2

----------------------------------------------------------------------------
(* SSDParams and the parameter values the model installs *)

DefaultParams ==
    [G0 |-> 500, g |-> 700, eps_noise |-> 0, eta |-> 300, rho |-> 300,
     lam |-> 20, kappa_min |-> 0,
     alpha |-> 600, beta_E |-> 150,
     Theta0 |-> 1000, a1 |-> 500, a2 |-> 400, h0 |-> 200, gamma |-> 800,
     T0 |-> 300, c1 |-> 500, c2 |-> 600, sigma |-> 200,
     delta_w |-> 200, delta_kappa |-> 200, c0_cool |-> 600, q_relax |-> 100,
     eps_relax |-> 10, eps0 |-> 20, d1 |-> 200, d2 |-> 200, b_path |-> 500]

\* a low threshold, so that the jump rate is high; a warm policy without noise
HotParams ==
    [DefaultParams EXCEPT !.Theta0 = -10000, !.T0 = 2000, !.sigma = 0]

\* values outside the ranges the header's comments give; no flow, so heat builds
SignParams ==
    [DefaultParams EXCEPT !.Theta0 = -10000, !.G0 = 0, !.g = 0, !.T0 = 0,
                          !.delta_w = -200, !.delta_kappa = -500, !.c0_cool = -500]

\* q_relax above 1
WideRelaxParams ==
    [DefaultParams EXCEPT !.Theta0 = -10000, !.q_relax = 1500, !.eps_relax = 100,
                          !.delta_kappa = 300]

\* the Scenario of the testable properties
ScenarioParams ==
    [DefaultParams EXCEPT !.g = 0, !.rho = 0, !.lam = 0]

\* alignment noise, a raised floor, the epsilon-random nudge always taken
NoisyParams ==
    [DefaultParams EXCEPT !.eps_noise = 100, !.kappa_min = 100, !.eps0 = 1000]

ParamChoices ==
    {DefaultParams, HotParams, SignParams, WideRelaxParams, ScenarioParams, NoisyParams}

\* what ssd_set_params installs in the model
SetChoices == {SignParams, NoisyParams}

----------------------------------------------------------------------------
(* The random source of a handle *)

RngMod == 16

\* one advance of the generator
RngAdvance(s) == (5 * s + 3) % RngMod

RECURSIVE RngAt(_, _)
RngAt(s, n) == IF n = 0 THEN s ELSE RngAt(RngAdvance(s), n - 1)

\* the generator's state for a seed
RngSeed(seed) == seed % RngMod

\* the value uni01 returns from state s: in [0, 1)
Uni01(s) == (s * SCALE) \div RngMod

\* the value norm01 returns from state s
Norm01(s) == ((s % 5) - 2) * (SCALE \div 2)

----------------------------------------------------------------------------
(* SSDHandle *)

Handles == {1, 2}

idx(i, j, N) == i * N + j

\* the null pointer
NullHandle ==
    [valid |-> FALSE, N |-> 0, current |-> 0, kappa |-> <<>>, w |-> <<>>,
     E |-> 0, F |-> 0, T |-> 0, pi |-> <<>>, prm |-> DefaultParams, rng |-> 0]

\* SSDHandle::SSDHandle(n, p, seed)
NewHandle(n, p, seed) ==
    [valid |-> TRUE, N |-> n, current |-> 0,
     kappa |-> [i \in 0 .. n * n - 1 |-> 0],
     w |-> [i \in 0 .. n * n - 1 |-> 0],
     E |-> 0, F |-> 0, T |-> (TSCALE \div SCALE) * p.T0,
     pi |-> [i \in 0 .. n - 1 |-> SCALE \div Max(1, n)],
     prm |-> p, rng |-> RngSeed(seed)]

DefaultSeed == 123456789

\* ssd_create without the remap of seed 0
ssd_create_keeps_seed(N, params, seed) ==
    IF N <= 0 THEN NullHandle ELSE NewHandle(N, params, seed)

\* ssd_create with `N < 0` for `N <= 0`
ssd_create_from_zero(N, params, seed) ==
    IF N < 0 THEN NullHandle
    ELSE NewHandle(N, params, IF seed = 0 THEN DefaultSeed ELSE seed)

ssd_create(N, params, seed) ==
    IF N <= 0 THEN NullHandle
    ELSE NewHandle(N, params, IF seed = 0 THEN DefaultSeed ELSE seed)

\* a std::vector holding the values of f: the values are computed once, when
\* the vector is filled, and read afterwards
Vec(f) == IF f = f THEN f ELSE f

RECURSIVE SumTo(_, _)
SumTo(f, n) == IF n = 0 THEN 0 ELSE f[n - 1] + SumTo(f, n - 1)

----------------------------------------------------------------------------
(* Helpers of ssd_core.cpp *)

clip(x, lo, hi) == IF x < lo THEN lo ELSE IF x > hi THEN hi ELSE x

\* (logit - maxv) / T with T in TSCALE units, T > 0; saturated at -ExpLo and
\* ExpLo, outside which exp is saturated as well
TempDiv(d, t) ==
    LET a == Abs(d) * (TSCALE \div SCALE)
    IN IF d = 0 THEN 0
       ELSE IF a \div t >= ExpLo \div SCALE THEN Sgn(d) * ExpLo
       ELSE LET qa == a \div t
                ra == a % t
                fr == IF t <= 2 * TSCALE THEN (ra * SCALE) \div t
                      ELSE ra \div (t \div SCALE)
            IN Sgn(d) * (qa * SCALE + fr)

\* ArgMaxTo with `>=` for `>` in the comparison: the last largest
RECURSIVE ArgMaxLast(_, _)
ArgMaxLast(logits, n) ==
    IF n = 1 THEN 0
    ELSE LET arg == ArgMaxLast(logits, n - 1)
         IN IF logits[n - 1] >= logits[arg] THEN n - 1 ELSE arg

\* the index of the first largest of logits[0 .. n-1]
RECURSIVE ArgMaxTo(_, _)
ArgMaxTo(logits, n) ==
    IF n = 1 THEN 0
    ELSE LET arg == ArgMaxTo(logits, n - 1)
         IN IF logits[n - 1] > logits[arg] THEN n - 1 ELSE arg

\* softmax_temp without the final division by the sum
softmax_unnormalised(logits, T, n) ==
    IF n = 0 THEN <<>>
    ELSE IF 100 * T <= 1
    THEN LET arg == ArgMaxTo(logits, n)
         IN [i \in 0 .. n - 1 |-> IF i = arg THEN SCALE ELSE 0]
    ELSE LET maxv == logits[ArgMaxTo(logits, n)]
         IN [i \in 0 .. n - 1 |-> ExpFx(TempDiv(logits[i] - maxv, T))]

\* softmax_temp(logits, T, out): the value of out; n is logits.size()
softmax_temp(logits, T, n) ==
    IF n = 0 THEN <<>>
    ELSE IF 100 * T <= 1
    THEN LET arg == ArgMaxTo(logits, n)
         IN [i \in 0 .. n - 1 |-> IF i = arg THEN SCALE ELSE 0]
    ELSE LET maxv == logits[ArgMaxTo(logits, n)]
             e    == Vec([i \in 0 .. n - 1 |-> ExpFx(TempDiv(logits[i] - maxv, T))])
             sum0 == SumTo(e, n)
             sum  == IF sum0 <= 0 THEN SCALE ELSE sum0
         IN [i \in 0 .. n - 1 |-> DivFx(e[i], sum)]

\* entropy_norm(p); entries <= 1e-12 are floored at 1e-12, where -x log x is 0
\* on the grid
entropy_norm(p, n) ==
    IF n = 0 THEN 0
    ELSE LET term == [i \in 0 .. n - 1 |->
                         IF p[i] <= 0 THEN 0 ELSE -MulFx(p[i], LogFx(p[i]))]
             H    == SumTo(term, n)
             Hmax == LogFx(n * SCALE)
         IN IF Hmax > 0 THEN DivFx(H, Hmax) ELSE 0

----------------------------------------------------------------------------
(* ssd_step, phase by phase *)

\* 1. AlignFlow: j[i] = (G0 + g*kappa[i]) * p [+ eps_noise * norm01]
AlignFlow(h, p) ==
    LET M == h.N * h.N
        noisy == h.prm.eps_noise > 0
    IN [j |-> Vec([i \in 0 .. M - 1 |->
                  MulFx(h.prm.G0 + MulFx(h.prm.g, h.kappa[i]), p)
                  + (IF noisy THEN MulFx(h.prm.eps_noise, Norm01(RngAt(h.rng, i + 1)))
                     ELSE 0)]),
        rng |-> IF noisy THEN RngAt(h.rng, M) ELSE h.rng]

\* J_norm without the final std::sqrt
J_normSquared(j, M) == SumTo([i \in 0 .. M - 1 |-> j[i] * j[i]], M) \div SCALE

J_normOf(j, M) == SqrtSq(SumTo([i \in 0 .. M - 1 |-> j[i] * j[i]], M))

\* 2. UpdateKappa, one entry
UpdateKappa(k, ji, p, dt, prm) ==
    LET align_work == MulFx(p, ji) - MulFx(MulFx(prm.rho, ji), ji)
        gain       == MulFx(prm.eta, align_work)
        decay      == MulFx(prm.lam, k - prm.kappa_min)
        new_kappa  == k + MulFx(gain - decay, dt)
    IN Max(new_kappa, prm.kappa_min)

\* 3. UpdateHeat
UpdateHeat(E, p, J_norm, dt, prm) ==
    LET excess_pressure == Max(Abs(p) - J_norm, 0)
        dE == MulFx(prm.alpha, excess_pressure) - MulFx(prm.beta_E, E)
    IN Max(E + MulFx(dE, dt), 0)

\* 4. the jump rate h0 * exp((E - Theta) / max(1e-8, gamma))
JumpRate(E, Theta, prm) ==
    LET d == E - Theta
        z == IF prm.gamma >= 1 THEN clip(DivFx(d, prm.gamma), -ExpLo, ExpHi)
             ELSE IF d = 0 THEN 0 ELSE Sgn(d) * ExpLo
    IN MulFx(prm.h0, ExpFx(z))

\* 4. the temperature max(1e-6, T0 + c1*E - c2*H), in TSCALE units
Temperature(E, policy_entropy, prm) ==
    Max(1, (TSCALE \div SCALE)
             * (prm.T0 + MulFx(prm.c1, E) - MulFx(prm.c2, policy_entropy)))

\* 5. 1 - exp(-hrate * dt)
JumpProbability(hrate, dt) == SCALE - ExpFx(-MulFx(hrate, dt))

\* the jump decision with `<=` for `<`
JumpTakenInclusive(u, jump_probability) == u <= jump_probability

\* 5. the jump is taken when the draw u is below the jump probability
JumpTaken(u, jump_probability) == u < jump_probability

\* categorical sampling: the first k with r <= cdf, else N - 1
RECURSIVE SampleFrom(_, _, _, _, _)
SampleFrom(pi, r, k, cdf, n) ==
    IF k >= n THEN n - 1
    ELSE IF r <= cdf + pi[k] THEN k
    ELSE SampleFrom(pi, r, k + 1, cdf + pi[k], n)

SampleCategorical(pi, r, n) == SampleFrom(pi, r, 0, 0, n)

\* (int)std::round(x): halves away from zero
RoundFx(x) == Sgn(x) * ((Abs(x) + SCALE \div 2) \div SCALE)

RelaxCount(prm, total_edges) == Max(1, RoundFx(prm.q_relax * total_edges))

\* the first relax_count indices after std::partial_sort by |j| descending
\* (equal |j|: the lower index first), for relax_count <= total_edges
TopByFlow(j, M, relax_count) ==
    {a \in 0 .. M - 1 :
        Cardinality({b \in 0 .. M - 1 :
            \/ Abs(j[b]) > Abs(j[a])
            \/ Abs(j[b]) = Abs(j[a]) /\ b < a}) < relax_count}

\* one relaxed entry
RelaxEntry(k, prm) == Max(k - prm.eps_relax, prm.kappa_min)

\* RelaxTop.  With relax_count > total_edges the partial_sort runs past the end
\* of indices (undefined behaviour): every edge is relaxed, and the slots past
\* the end hold whatever the heap holds there: stray is an index that such a
\* slot names once more, or -1 when none falls in the matrix.
RelaxTop(kappa, j, prm, N, stray) ==
    LET M  == N * N
        rc == RelaxCount(prm, M)
    IN IF rc <= M
       THEN LET top == TopByFlow(j, M, rc)
            IN [i \in 0 .. M - 1 |-> IF i \in top THEN RelaxEntry(kappa[i], prm)
                                     ELSE kappa[i]]
       ELSE [i \in 0 .. M - 1 |->
                IF i = stray THEN RelaxEntry(RelaxEntry(kappa[i], prm), prm)
                ELSE RelaxEntry(kappa[i], prm)]

\* the self-connection penalty with its sign reversed (logits[k] += 1.0)
LogitSelfBonus == 0 - 1000

\* the self-connection penalty on the jump logits
LogitSelfPenalty == 1000

\* Rewire: kappa[edge_idx] += delta_kappa
RewireKappa(k, prm) == k + prm.delta_kappa

\* Rewire adding the inertia increment to the weight
RewireWeightByKappa(wv, prm) == wv + prm.delta_kappa

\* Rewire: w[edge_idx] += delta_w
RewireWeight(wv, prm) == wv + prm.delta_w

\* cooling: E *= c0_cool
Cool(E, prm) == MulFx(E, prm.c0_cool)

\* the fixed nudge of the epsilon-random branch
NudgeStep == 50

\* 5. the jump branch.  s1 is the generator after the draw u.
JumpBranch(h, j, T, E3, kap2, s1, stray) ==
    LET N      == h.N
        prm    == h.prm
        logits == Vec([k \in 0 .. N - 1 |->
                      kap2[idx(h.current, k, N)]
                      - (IF k = h.current THEN LogitSelfPenalty ELSE 0)
                      + MulFx(prm.sigma, Norm01(RngAt(s1, k + 1)))])
        pi     == Vec(softmax_temp(logits, T, N))
        s2     == RngAt(s1, N + 1)
        r      == Uni01(s2)
        selected == SampleCategorical(pi, r, N)
        edge_idx == idx(h.current, selected, N)
        kap3   == [kap2 EXCEPT ![edge_idx] = RewireKappa(@, prm)]
    IN [h |-> [h EXCEPT !.w[edge_idx] = RewireWeight(@, prm),
                        !.kappa = RelaxTop(kap3, j, prm, N, stray),
                        !.E = Cool(E3, prm),
                        !.T = T,
                        !.pi = pi,
                        !.current = selected,
                        !.rng = s2],
        rewired_to |-> selected,
        logits |-> logits, r |-> r, nudged |-> -1,
        relax_count |-> RelaxCount(prm, N * N)]

\* the branch without a jump, recomputing pi from the row of the current node
\* as the jump branch does
NoJumpBranchWithPolicy(h, T, E3, kap2, kappa_mean, s1) ==
    LET N    == h.N
        prm  == h.prm
        eps  == clip(prm.eps0 + MulFx(prm.d1, E3) - MulFx(prm.d2, kappa_mean), 0, SCALE)
        s2   == RngAdvance(s1)
        explore == Uni01(s2) < eps
        s3   == IF explore THEN RngAdvance(s2) ELSE s2
        k0   == (Uni01(s3) * N) \div SCALE
        k    == IF k0 = N THEN N - 1 ELSE k0
        nudge == explore /\ k # h.current
        edge_idx == idx(h.current, k, N)
        kap3 == IF nudge THEN [kap2 EXCEPT ![edge_idx] = @ + NudgeStep] ELSE kap2
        w3   == IF nudge THEN [h.w EXCEPT ![edge_idx] = @ + NudgeStep] ELSE h.w
        value == Vec([c \in 0 .. N - 1 |->
                     (TSCALE \div SCALE) * kap3[idx(h.current, c, N)]
                     - (IF c = h.current THEN 1 ELSE 0)])
        best == ArgMaxTo(value, N)
        logits == Vec([c \in 0 .. N - 1 |->
                      kap3[idx(h.current, c, N)]
                      - (IF c = h.current THEN LogitSelfPenalty ELSE 0)])
    IN [h |-> [h EXCEPT !.w = w3, !.kappa = kap3, !.E = E3, !.T = T,
                        !.pi = Vec(softmax_temp(logits, T, N)),
                        !.current = best, !.rng = s3],
        rewired_to |-> best,
        logits |-> <<>>, r |-> 0, nudged |-> IF nudge THEN k ELSE -1,
        relax_count |-> 0]

\* the branch without a jump, the self-connection not discouraged in the
\* deterministic choice
NoJumpBranchTiesStay(h, T, E3, kap2, kappa_mean, s1) ==
    LET N    == h.N
        prm  == h.prm
        eps  == clip(prm.eps0 + MulFx(prm.d1, E3) - MulFx(prm.d2, kappa_mean), 0, SCALE)
        s2   == RngAdvance(s1)
        explore == Uni01(s2) < eps
        s3   == IF explore THEN RngAdvance(s2) ELSE s2
        k0   == (Uni01(s3) * N) \div SCALE
        k    == IF k0 = N THEN N - 1 ELSE k0
        nudge == explore /\ k # h.current
        edge_idx == idx(h.current, k, N)
        kap3 == IF nudge THEN [kap2 EXCEPT ![edge_idx] = @ + NudgeStep] ELSE kap2
        w3   == IF nudge THEN [h.w EXCEPT ![edge_idx] = @ + NudgeStep] ELSE h.w
        value == Vec([c \in 0 .. N - 1 |->
                     (TSCALE \div SCALE) * kap3[idx(h.current, c, N)]
                     ])
        best == ArgMaxTo(value, N)
    IN [h |-> [h EXCEPT !.w = w3, !.kappa = kap3, !.E = E3, !.T = T,
                        !.current = best, !.rng = s3],
        rewired_to |-> best,
        logits |-> <<>>, r |-> 0, nudged |-> IF nudge THEN k ELSE -1,
        relax_count |-> 0]

\* 5. the branch without a jump.  s1 is the generator after the draw u.
NoJumpBranch(h, T, E3, kap2, kappa_mean, s1) ==
    LET N    == h.N
        prm  == h.prm
        eps  == clip(prm.eps0 + MulFx(prm.d1, E3) - MulFx(prm.d2, kappa_mean), 0, SCALE)
        s2   == RngAdvance(s1)
        explore == Uni01(s2) < eps
        s3   == IF explore THEN RngAdvance(s2) ELSE s2
        k0   == (Uni01(s3) * N) \div SCALE
        k    == IF k0 = N THEN N - 1 ELSE k0
        nudge == explore /\ k # h.current
        edge_idx == idx(h.current, k, N)
        kap3 == IF nudge THEN [kap2 EXCEPT ![edge_idx] = @ + NudgeStep] ELSE kap2
        w3   == IF nudge THEN [h.w EXCEPT ![edge_idx] = @ + NudgeStep] ELSE h.w
        \* value = kappa[current,k], minus 1e-6 at k = current, in TSCALE units
        value == Vec([c \in 0 .. N - 1 |->
                     (TSCALE \div SCALE) * kap3[idx(h.current, c, N)]
                     - (IF c = h.current THEN 1 ELSE 0)])
        best == ArgMaxTo(value, N)
    IN [h |-> [h EXCEPT !.w = w3, !.kappa = kap3, !.E = E3, !.T = T,
                        !.current = best, !.rng = s3],
        rewired_to |-> best,
        logits |-> <<>>, r |-> 0, nudged |-> IF nudge THEN k ELSE -1,
        relax_count |-> 0]

\* what the model records of the last call, besides the caller's telemetry
NoCall ==
    [op |-> "create", h |-> 0, p |-> 0, dt |-> 0, pre |-> NullHandle,
     did_jump |-> FALSE, j |-> <<>>, logits |-> <<>>, u |-> 0, r |-> 0,
     nudged |-> -1, relax_count |-> 0, stray |-> -1,
     N |-> 0, seed |-> 0, out |-> 0, row |-> 0, len |-> 0,
     buf |-> <<>>, buf0 |-> <<>>, ret |-> 0]

\* ssd_step(h, p, dt, out): the handle and the telemetry record after the call
ssd_step(h, p, dt, out, stray) ==
    IF ~h.valid THEN [h |-> h, out |-> out, call |-> [NoCall EXCEPT !.op = "step"]]
    ELSE
    LET N    == h.N
        M    == N * N
        prm  == h.prm
        flow == AlignFlow(h, p)
        j    == flow.j
        J_norm == J_normOf(j, M)
        kap2 == Vec([i \in 0 .. M - 1 |-> UpdateKappa(h.kappa[i], j[i], p, dt, prm)])
        E3   == UpdateHeat(h.E, p, J_norm, dt, prm)
        kappa_mean == DivInt(SumTo(kap2, M), M)
        Theta == prm.Theta0 + MulFx(prm.a1, kappa_mean) - MulFx(prm.a2, h.F)
        hrate == JumpRate(E3, Theta, prm)
        policy_entropy == IF N = 0 THEN SCALE ELSE entropy_norm(h.pi, N)
        T    == Temperature(E3, policy_entropy, prm)
        jump_probability == JumpProbability(hrate, dt)
        s1   == RngAdvance(flow.rng)
        u    == Uni01(s1)
        did_jump == JumpTaken(u, jump_probability)
        b    == IF did_jump THEN JumpBranch(h, j, T, E3, kap2, s1, stray)
                ELSE NoJumpBranch(h, T, E3, kap2, kappa_mean, s1)
        align_efficiency == IF Abs(p) > 0 THEN DivFx(J_norm, Abs(p)) ELSE 0
    IN [h |-> b.h,
        out |-> [E |-> b.h.E, Theta |-> Theta, h |-> hrate, T |-> b.h.T,
                 H |-> policy_entropy, J_norm |-> J_norm,
                 align_eff |-> align_efficiency, kappa_mean |-> kappa_mean,
                 current |-> b.h.current,
                 did_jump |-> IF did_jump THEN 1 ELSE 0,
                 rewired_to |-> b.rewired_to],
        call |-> [NoCall EXCEPT !.op = "step", !.p = p, !.dt = dt, !.pre = h,
                  !.did_jump = did_jump, !.j = j, !.logits = b.logits,
                  !.u = u, !.r = b.r, !.nudged = b.nudged,
                  !.relax_count = b.relax_count, !.stray = stray]]

\* the telemetry of ssd_align_leap_dll.cpp: H is computed from pi as the step
\* leaves it
TelemetryDll(r) ==
    [r EXCEPT !.out.H = IF r.h.N = 0 THEN SCALE ELSE entropy_norm(r.h.pi, r.h.N)]

\* ssd_step of ssd_align_leap_dll.cpp: phase by phase the computation of
\* ssd_core.cpp's, but for the telemetry field H
ssd_step_dll(h, p, dt, out, stray) ==
    IF ~h.valid THEN [h |-> h, out |-> out, call |-> [NoCall EXCEPT !.op = "step"]]
    ELSE TelemetryDll(ssd_step(h, p, dt, out, stray))

\* ssd_set_params(h, in)
ssd_set_params(h, in) == IF ~h.valid THEN h ELSE [h EXCEPT !.prm = in]

\* ssd_get_kappa_row(h, row, out_buf, len): the count returned and the buffer
\* after the call.  buf is <<>> for a null out_buf.  A negative len passes
\* the guard and reaches memcpy as a size near 2^64 (undefined behaviour):
\* overrun tells whether the copy ran over the caller's buffer before the
\* call returned.
ssd_get_kappa_row(h, row, buf, len, overrun) ==
    IF ~h.valid \/ buf = <<>> \/ row < 0 \/ row >= h.N THEN [ret |-> 0, buf |-> buf]
    ELSE LET N == h.N
             m == Min(N, len)
             copied == IF m >= 0 THEN m ELSE IF overrun THEN N ELSE 0
         IN [ret |-> m,
             buf |-> [k \in DOMAIN buf |->
                        IF k < copied THEN h.kappa[row * N + k] ELSE buf[k]]]

----------------------------------------------------------------------------
(* The state machine: the caller's handles and telemetry records *)

\* the caller's telemetry record before any call wrote it
BlankTelemetry ==
    [E |-> 0, Theta |-> 0, h |-> 0, T |-> 0, H |-> 0, J_norm |-> 0,
     align_eff |-> 0, kappa_mean |-> 0, current |-> 0, did_jump |-> 0,
     rewired_to |-> 0]

Sizes == {1, 2, 3}

Seeds == {0, 1, 9}

Drives == {0, 1000}

Steps == {0, 1000}

\* what a slot past the end of indices can name: nothing in the matrix (-1),
\* or, the memory there being zero, the edge 0
Strays(h) ==
    IF h.valid /\ RelaxCount(h.prm, h.N * h.N) > h.N * h.N
    THEN {-1, 0} ELSE {-1}

\* the uniform policy of a handle nobody stepped
UniformPolicy(h) == [k \in 0 .. h.N - 1 |-> SCALE \div h.N]

NoSoftmax == [called |-> FALSE, n |-> 0, logits |-> <<>>, T |-> 0, out |-> <<>>]

----------------------------------------------------------------------------
(* NeuroCore and the bridge from the neuro state to the parameters *)

\* NeuroState with its default member initialisers
DefaultNeuro ==
    [DA |-> 500, S5 |-> 500, NE |-> 500, AD |-> 500, END |-> 500, OXT |-> 500,
     CORT |-> 500]

\* NeuroCore::baseline
baseline == DefaultNeuro

\* the time constants tau_DA .. tau_CORT, in milliseconds
tau ==
    [DA |-> 30000, S5 |-> 45000, NE |-> 20000, AD |-> 8000, END |-> 40000,
     OXT |-> 35000, CORT |-> 120000]

\* clamp without its bounds
clamp01_open(v) == v

clamp01(v) == IF v < 0 THEN 0 ELSE IF v > SCALE THEN SCALE ELSE v

\* the lambda step of NeuroCore::Tick: v after relaxing toward b over dt
NeuroStep(v, b, t, dt) ==
    IF t <= 1 THEN v ELSE clamp01(v + MulFx(b - v, DivFx(dt, t)))

\* NeuroCore::Tick(dt): the state x after the call
NeuroTick(x, dt) ==
    [DA   |-> NeuroStep(x.DA, baseline.DA, tau.DA, dt),
     S5   |-> NeuroStep(x.S5, baseline.S5, tau.S5, dt),
     NE   |-> NeuroStep(x.NE, baseline.NE, tau.NE, dt),
     AD   |-> NeuroStep(x.AD, baseline.AD, tau.AD, dt),
     END  |-> NeuroStep(x.END, baseline.END, tau.END, dt),
     OXT  |-> NeuroStep(x.OXT, baseline.OXT, tau.OXT, dt),
     CORT |-> NeuroStep(x.CORT, baseline.CORT, tau.CORT, dt)]

EventIds == {"praise", "insult_god", "ritual_success", "taboo_violation", "comfort"}

\* the delta of each event of kEvents
kEvents ==
    [id \in EventIds |->
       CASE id = "praise" ->
              [DA |-> 100, S5 |-> 50, NE |-> 0, AD |-> 0, END |-> 0, OXT |-> 100,
               CORT |-> -20]
         [] id = "insult_god" ->
              [DA |-> -50, S5 |-> -100, NE |-> 120, AD |-> 120, END |-> 0,
               OXT |-> -80, CORT |-> 150]
         [] id = "ritual_success" ->
              [DA |-> 80, S5 |-> 50, NE |-> 0, AD |-> 0, END |-> 0, OXT |-> 100,
               CORT |-> -20]
         [] id = "taboo_violation" ->
              [DA |-> -50, S5 |-> -50, NE |-> 100, AD |-> 100, END |-> 0,
               OXT |-> -50, CORT |-> 120]
         [] id = "comfort" ->
              [DA |-> 20, S5 |-> 50, NE |-> -50, AD |-> 0, END |-> 50, OXT |-> 80,
               CORT |-> -50]]

add_clamp(v, delta) == clamp01(v + delta)

\* NeuroCore::ApplyEvent(id): the state x after the call
NeuroApplyEvent(x, id) ==
    IF id \notin EventIds THEN x
    ELSE LET d == kEvents[id]
         IN [DA   |-> add_clamp(x.DA, d.DA),
             S5   |-> add_clamp(x.S5, d.S5),
             NE   |-> add_clamp(x.NE, d.NE),
             AD   |-> add_clamp(x.AD, d.AD),
             END  |-> add_clamp(x.END, d.END),
             OXT  |-> add_clamp(x.OXT, d.OXT),
             CORT |-> add_clamp(x.CORT, d.CORT)]

dev(u01) == 2 * u01 - SCALE

clip01(v) == IF v < 0 THEN 0 ELSE IF v > SCALE THEN SCALE ELSE v

\* 1e-6 on the grid of the parameters: its least positive value, so that the
\* floor of clipPos stays above zero
PosFloor == 1

\* clipPos without its floor
clipPos_open(v) == v

\* clipPos: on the grid v < 1e-6 is v <= 0
clipPos(v) == IF v < PosFloor THEN PosFloor ELSE v

\* MapNeuroToSSD(n, prm): prm after the call
MapNeuroToSSD(n, prm) ==
    LET DA == dev(n.DA)
        S5 == dev(n.S5)
        NE == dev(n.NE)
        AD == dev(n.AD)
        END == dev(n.END)
        OXT == dev(n.OXT)
        CORT == dev(n.CORT)
    IN [prm EXCEPT
          !.T0 = clip01(@ + MulFx(200, DA) - MulFx(150, NE) + MulFx(100, AD)),
          !.Theta0 = clip01(@ + MulFx(250, S5) + MulFx(200, OXT) - MulFx(250, CORT)),
          !.h0 = clip01(@ + MulFx(200, DA) + MulFx(150, AD) - MulFx(150, S5)),
          !.eta = clipPos(@ + MulFx(100, DA) - MulFx(100, CORT)),
          !.lam = clipPos(@ + MulFx(100, S5)),
          !.alpha = clipPos(@ + MulFx(150, NE) - MulFx(100, END)),
          !.beta_E = clipPos(@ + MulFx(100, S5) + MulFx(100, END)),
          !.sigma = clip01(@ + MulFx(50, DA) - MulFx(50, S5))]

\* the handle a NeuroSSDSystem(N, seed) holds once constructed
NeuroSSDSystem(N, seed) ==
    ssd_create(N, DefaultParams, IF seed # 0 THEN seed ELSE DefaultSeed)

\* ssd_get_params(h, out): *out after the call
ssd_get_params(h, out) == IF ~h.valid THEN out ELSE h.prm

\* NeuroSSDSystem::Tick up to its ssd_step: the neuro state n after neuro.Tick,
\* current_params as read (in) and as mapped (out), and the handle with the
\* mapped parameters installed
TickRemap(x, h, dt) ==
    LET n == NeuroTick(x, dt)
        in == ssd_get_params(h, DefaultParams)
        out == MapNeuroToSSD(n, in)
    IN [n |-> n, in |-> in, out |-> out, h |-> ssd_set_params(h, out)]

\* no MapNeuroToSSD call yet
NoMap == [n |-> DefaultNeuro, in |-> DefaultParams, out |-> DefaultParams]

\* a NeuroSSDSystem nobody ticked: x is neuro.x and x0 what it was before the
\* last call (op, with event id), ticks the remaps of the two most recent
\* Tick calls, map a MapNeuroToSSD call of the caller's own
NoSystem ==
    [x |-> DefaultNeuro, x0 |-> DefaultNeuro, op |-> "none", id |-> "",
     ticks |-> <<>>, map |-> NoMap]

----------------------------------------------------------------------------
(* The universal engine of ssd_universal_engine_dll.cpp: its result cache    *)
(* and its statistics.  Of an evaluation the model keeps the inputs it       *)
(* varies (one structure, one pressure, one context) and the result fields   *)
(* that depend on them.                                                      *)

SSD_SUCCESS == 0

SSD_ERROR_INVALID_INPUT == -1

SSD_WARNING_LOW_CONFIDENCE == 1

\* the capacity test of the cache store: cache.size() < 1000
CacheLimit == 1000

\* the configuration the constructor applies without a user configuration
DefaultConfig == [precision_level |-> 2, enable_cache |-> 1]

\* SSDEngineConfig of a user: low precision
LowPrecisionConfig == [precision_level |-> 0, enable_cache |-> 1]

\* SSDEngineConfig of a user: no cache
NoCacheConfig == [precision_level |-> 2, enable_cache |-> 0]

precision_factors == <<500, 700, 900, 1000>>

\* calculate_hash: a value determined by the structure ids, the pressure ids
\* and, of the context, domain, scale_level, time_scale, measurement_precision
\* and context_id; domain, scale_level and time_scale are held fixed
calculate_hash(in) ==
    <<in.structure_id, in.pressure_id, in.measurement_precision, in.context_id>>

\* calculate_confidence
calculate_confidence(in, config) ==
    LET data_quality == Min((in.structure_count * SCALE) \div 5, SCALE)
        pressure_quality == Min((in.pressure_count * SCALE) \div 3, SCALE)
        precision_factor == precision_factors[Min(config.precision_level, 3) + 1]
        measurement_factor == in.measurement_precision
    IN (data_quality + pressure_quality + precision_factor + measurement_factor) \div 4

\* analyze_structures, stability: one structure without constraint matrix in
\* the physics domain (structure_weight 1.0)
analyze_structures(in) == clip(MulFx(in.stability_index, SCALE), 0, SCALE)

\* the result as evaluate_system has it when it stores it in the cache:
\* zeroed by memset, then filled by the analyses; return_code is still 0
Analysed(in, config) ==
    [return_code |-> 0,
     structure_stability |-> analyze_structures(in),
     calculation_confidence |-> calculate_confidence(in, config),
     warning_low_confidence |-> calculate_confidence(in, config) < 500]

\* the number of entries of the cache: those of the keys the model looks up,
\* and others, stored for inputs that are not evaluated again
CacheSize(e) == Cardinality(DOMAIN e.cache) + e.others

\* the capacity test admitting one entry more
CacheHasRoomInclusive(e) == CacheSize(e) <= CacheLimit

\* cache.size() < 1000
CacheHasRoom(e) == CacheSize(e) < CacheLimit

\* cache[hash_key] = entry
CachePut(cache, key, r) ==
    [k \in DOMAIN cache \cup {key} |-> IF k = key THEN r ELSE cache[k]]

\* the input validation of evaluate_system
ValidInput(in) == in.structure_count > 0 /\ in.pressure_count > 0

\* SSDUniversalEngine::evaluate_system(input in, out_result holding out): the
\* engine after the call, the code returned and out_result
evaluate_system(e, in, out) ==
    IF ~ValidInput(in) THEN [e |-> e, ret |-> SSD_ERROR_INVALID_INPUT, result |-> out]
    ELSE IF e.config.enable_cache # 0 /\ calculate_hash(in) \in DOMAIN e.cache
    THEN [e |-> [e EXCEPT !.cache_hits = @ + 1],
          ret |-> SSD_SUCCESS,
          result |-> e.cache[calculate_hash(in)]]
    ELSE [e |-> [e EXCEPT
                   !.cache = IF e.config.enable_cache # 0 /\ CacheHasRoom(e)
                             THEN CachePut(@, calculate_hash(in), Analysed(in, e.config))
                             ELSE @,
                   !.total_evaluations = @ + 1,
                   !.scores = Min(@ + 1, 100)],
          ret |-> IF calculate_confidence(in, e.config) < 300
                  THEN SSD_WARNING_LOW_CONFIDENCE ELSE SSD_SUCCESS,
          result |-> [Analysed(in, e.config) EXCEPT
                        !.return_code = IF calculate_confidence(in, e.config) < 300
                                        THEN SSD_WARNING_LOW_CONFIDENCE ELSE SSD_SUCCESS]]

\* ssd_universal_get_stats: the report
ssd_universal_get_stats(e) ==
    [total_evaluations |-> e.total_evaluations,
     cache_hit_rate |-> IF e.total_evaluations > 0
                        THEN (e.cache_hits * SCALE) \div e.total_evaluations ELSE 0,
     cache_size |-> CacheSize(e),
     max_cache_size |-> 1000]

\* ssd_universal_reset: the engine after the call
ssd_universal_reset(e) ==
    [e EXCEPT !.cache = <<>>, !.others = 0, !.total_evaluations = 0,
              !.cache_hits = 0, !.scores = 0]

\* a null config pointer
NullConfig == [precision_level |-> -1, enable_cache |-> -1]

\* ssd_universal_set_config: the engine after the call
ssd_universal_set_config(e, config) ==
    IF config = NullConfig THEN e ELSE [e EXCEPT !.config = config]

\* the caller's out_result before any call wrote it
CallerResult ==
    [return_code |-> -99, structure_stability |-> -99,
     calculation_confidence |-> -99, warning_low_confidence |-> FALSE]

\* an evaluation input: one structure, one pressure, one context
InputOf(sid, stability, structures, precision) ==
    [structure_id |-> sid, stability_index |-> stability,
     structure_count |-> structures, pressure_id |-> "p1", pressure_count |-> 1,
     context_id |-> "c1", measurement_precision |-> precision]

NoInput == InputOf("", 0, 0, 0)

\* no call made yet
NoEngineCall ==
    [op |-> "none", in |-> NoInput, ret |-> 0, result |-> CallerResult,
     stats |-> <<>>, pre |-> <<>>]

\* the engine ssd_universal_create(config) returns, after n evaluations of
\* distinct inputs that are not evaluated again.  counted is the number of
\* evaluation calls since creation or the last reset that returned
\* SSD_SUCCESS or SSD_WARNING_LOW_CONFIDENCE.
EngineAfter(config, n) ==
    [config |-> config, cache |-> <<>>,
     others |-> IF config.enable_cache # 0 THEN Min(n, CacheLimit) ELSE 0,
     total_evaluations |-> n, cache_hits |-> 0, scores |-> Min(n, 100),
     counted |-> n, call |-> NoEngineCall,
     pc |-> <<"idle", "idle">>, cache_mutex |-> 0, stats_mutex |-> 0,
     local |-> <<NoEngineCall, NoEngineCall>>]

\* no engine
NoEngine == EngineAfter(DefaultConfig, 0)

----------------------------------------------------------------------------
(* The state machine, continued *)

\* one handle created by ssd_create, the other pointer null
Init ==
    /\ \E N \in Sizes, p \in ParamChoices, seed \in Seeds :
          hs = [i \in Handles |-> IF i = 1 THEN ssd_create(N, p, seed) ELSE NullHandle]
    /\ tel = [i \in Handles |-> BlankTelemetry]
    /\ last = NoCall
    /\ jumpPi = [i \in Handles |-> UniformPolicy(hs[i])]
    /\ sm = NoSoftmax
    /\ sys = NoSystem
    /\ eng = NoEngine
    /\ nops = 0

\* the handles that are not null
Live == {i \in Handles : hs[i].valid}

\* the caller's handle i and telemetry record once the call has returned res
StepReturns(i, res) ==
    /\ hs' = [hs EXCEPT ![i] = res.h]
    /\ tel' = [tel EXCEPT ![i] = res.out]
    /\ last' = [res.call EXCEPT !.h = i]
    /\ jumpPi' = [jumpPi EXCEPT ![i] = IF res.call.did_jump THEN res.h.pi ELSE @]

Step(i, p, dt, stray) ==
    /\ nops < MaxOps
    /\ StepReturns(i, ssd_step(hs[i], p, dt, tel[i], stray))
    /\ nops' = nops + 1
    /\ UNCHANGED <<sm, sys, eng>>

SetParams(i, in) ==
    /\ nops < MaxOps
    /\ hs' = [hs EXCEPT ![i] = ssd_set_params(hs[i], in)]
    /\ last' = [NoCall EXCEPT !.op = "set_params", !.h = i, !.pre = hs[i]]
    /\ nops' = nops + 1
    /\ UNCHANGED <<tel, jumpPi, sm, sys, eng>>

Next ==
    \/ \E i \in Live, p \in Drives, dt \in Steps :
          \E stray \in Strays(hs[i]) : Step(i, p, dt, stray)
    \/ \E i \in Live, in \in SetChoices : SetParams(i, in)

Spec == Init /\ [][Next]_vars

----------------------------------------------------------------------------
(* Two handles created alike and driven alike *)

PairParams == {DefaultParams, HotParams, WideRelaxParams}

InitPair ==
    /\ \E N \in Sizes \ {1}, p \in PairParams, seed \in Seeds :
          hs = [i \in Handles |-> ssd_create(N, p, seed)]
    /\ tel = [i \in Handles |-> BlankTelemetry]
    /\ last = NoCall
    /\ jumpPi = [i \in Handles |-> UniformPolicy(hs[i])]
    /\ sm = NoSoftmax
    /\ sys = NoSystem
    /\ eng = NoEngine
    /\ nops = 0

\* both handles and telemetry records once the two calls have returned r1, r2
StepPairReturns(r1, r2) ==
    /\ hs' = [i \in Handles |-> IF i = 1 THEN r1.h ELSE r2.h]
    /\ tel' = [i \in Handles |-> IF i = 1 THEN r1.out ELSE r2.out]
    /\ last' = [r1.call EXCEPT !.h = 1]
    /\ jumpPi' = [i \in Handles |->
                     IF i = 1 THEN (IF r1.call.did_jump THEN r1.h.pi ELSE jumpPi[1])
                     ELSE (IF r2.call.did_jump THEN r2.h.pi ELSE jumpPi[2])]

\* the same ssd_step(p, dt) on both handles
StepPair(p, dt, stray1, stray2) ==
    /\ nops < MaxOps
    /\ StepPairReturns(ssd_step(hs[1], p, dt, tel[1], stray1),
                       ssd_step(hs[2], p, dt, tel[2], stray2))
    /\ nops' = nops + 1
    /\ UNCHANGED <<sm, sys, eng>>

\* the same ssd_set_params on both handles
SetParamsPair(in) ==
    /\ nops < MaxOps
    /\ hs' = [i \in Handles |-> ssd_set_params(hs[i], in)]
    /\ last' = [NoCall EXCEPT !.op = "set_params", !.h = 1, !.pre = hs[1]]
    /\ nops' = nops + 1
    /\ UNCHANGED <<tel, jumpPi, sm, sys, eng>>

NextPair ==
    \/ \E p \in Drives, dt \in Steps :
          \E stray1 \in Strays(hs[1]), stray2 \in Strays(hs[2]) :
             StepPair(p, dt, stray1, stray2)
    \/ \E in \in SetChoices : SetParamsPair(in)

SpecPair == InitPair /\ [][NextPair]_vars

----------------------------------------------------------------------------
(* Two handles created alike but for the seed, 0 and 123456789, and driven   *)
(* alike; where a step has undefined behaviour both take the same outcome    *)

InitSeedPair ==
    /\ \E N \in Sizes, p \in PairParams :
          hs = [i \in Handles |-> ssd_create(N, p, IF i = 1 THEN 0 ELSE DefaultSeed)]
    /\ tel = [i \in Handles |-> BlankTelemetry]
    /\ last = NoCall
    /\ jumpPi = [i \in Handles |-> UniformPolicy(hs[i])]
    /\ sm = NoSoftmax
    /\ sys = NoSystem
    /\ eng = NoEngine
    /\ nops = 0

NextSeedPair ==
    \/ \E p \in Drives, dt \in Steps :
          \E stray \in Strays(hs[1]) \cup Strays(hs[2]) : StepPair(p, dt, stray, stray)
    \/ \E in \in SetChoices : SetParamsPair(in)

SpecSeedPair == InitSeedPair /\ [][NextSeedPair]_vars

----------------------------------------------------------------------------
(* Several handles of one caller: created, stepped and re-parameterised in   *)
(* any interleaving, a step writing to any of the caller's telemetry records *)

CreateSizes == {-1, 0, 1, 2}

MultiParams == {HotParams}

MultiSeeds == {0, 1}

InitMulti ==
    /\ \E N \in CreateSizes \ {-1, 0}, p \in MultiParams, seed \in MultiSeeds :
          hs = [i \in Handles |-> IF i = 1 THEN ssd_create(N, p, seed) ELSE NullHandle]
    /\ tel = [i \in Handles |-> BlankTelemetry]
    /\ last = NoCall
    /\ jumpPi = [i \in Handles |-> UniformPolicy(hs[i])]
    /\ sm = NoSoftmax
    /\ sys = NoSystem
    /\ eng = NoEngine
    /\ nops = 0

\* the caller keeps in pointer i what ssd_create returned
CreateReturns(i, h) ==
    /\ hs' = [hs EXCEPT ![i] = h]
    /\ jumpPi' = [jumpPi EXCEPT ![i] = UniformPolicy(h)]

\* pointer i := ssd_create(N, params, seed), for a pointer that is null
Create(i, N, params, seed) ==
    /\ nops < MaxOps
    /\ ~hs[i].valid
    /\ CreateReturns(i, ssd_create(N, params, seed))
    /\ last' = [NoCall EXCEPT !.op = "create", !.h = i, !.N = N, !.seed = seed,
                              !.pre = hs[i]]
    /\ nops' = nops + 1
    /\ UNCHANGED <<tel, sm, sys, eng>>

\* handle i and telemetry record t once ssd_step(hs[i], p, dt, &tel[t]) has
\* returned res
StepIntoReturns(i, t, res) ==
    /\ hs' = [hs EXCEPT ![i] = res.h]
    /\ tel' = [tel EXCEPT ![t] = res.out]
    /\ last' = [res.call EXCEPT !.h = i, !.out = t]
    /\ jumpPi' = [jumpPi EXCEPT ![i] = IF res.call.did_jump THEN res.h.pi ELSE @]

\* ssd_step(hs[i], p, dt, &tel[t]), the pointer hs[i] null or not
StepInto(i, t, p, dt, stray) ==
    /\ nops < MaxOps
    /\ StepIntoReturns(i, t, ssd_step(hs[i], p, dt, tel[t], stray))
    /\ nops' = nops + 1
    /\ UNCHANGED <<sm, sys, eng>>

NextMulti ==
    \/ \E i \in Handles, N \in CreateSizes, p \in MultiParams, seed \in MultiSeeds :
          Create(i, N, p, seed)
    \/ \E i \in Handles, t \in Handles, p \in Drives, dt \in Steps :
          \E stray \in Strays(hs[i]) : StepInto(i, t, p, dt, stray)
    \/ \E i \in Handles, in \in SetChoices : SetParams(i, in)

SpecMulti == InitMulti /\ [][NextMulti]_vars

----------------------------------------------------------------------------
(* One handle, stepped and read row by row *)

\* the caller's buffer of four doubles, as the caller left it
CallerBuffer == [k \in 0 .. 3 |-> -7000 - k]

Rows == {-1, 0, 1, 3}

Lens == {-1, 1, 4}

InitRows ==
    /\ \E N \in Sizes \ {1}, seed \in Seeds :
          hs = [i \in Handles |-> IF i = 1 THEN ssd_create(N, HotParams, seed)
                                  ELSE NullHandle]
    /\ tel = [i \in Handles |-> BlankTelemetry]
    /\ last = NoCall
    /\ jumpPi = [i \in Handles |-> UniformPolicy(hs[i])]
    /\ sm = NoSoftmax
    /\ sys = NoSystem
    /\ eng = NoEngine
    /\ nops = 0

\* what the caller holds once ssd_get_kappa_row has returned res
GetKappaRowReturns(i, row, buf, len, res) ==
    last' = [NoCall EXCEPT !.op = "get_kappa_row", !.h = i, !.pre = hs[i],
                           !.row = row, !.len = len, !.buf0 = buf,
                           !.buf = res.buf, !.ret = res.ret]

\* ssd_get_kappa_row(hs[i], row, buf, len)
GetKappaRow(i, row, buf, len, overrun) ==
    /\ nops < MaxOps
    /\ GetKappaRowReturns(i, row, buf, len,
                          ssd_get_kappa_row(hs[i], row, buf, len, overrun))
    /\ nops' = nops + 1
    /\ UNCHANGED <<hs, tel, jumpPi, sm, sys, eng>>

NextRows ==
    \/ \E i \in Live, p \in Drives, dt \in Steps :
          \E stray \in Strays(hs[i]) : Step(i, p, dt, stray)
    \/ \E i \in Handles, row \in Rows, buf \in {<<>>, CallerBuffer}, len \in Lens :
          \E overrun \in (IF len < 0 THEN BOOLEAN ELSE {FALSE}) :
             GetKappaRow(i, row, buf, len, overrun)

SpecRows == InitRows /\ [][NextRows]_vars

----------------------------------------------------------------------------
(* Two handles of their own, each stepped, re-parameterised and read alone *)

IsoParams == {HotParams, WideRelaxParams}

InitIso ==
    /\ \E N \in {2}, pA \in IsoParams, pB \in IsoParams, seed \in MultiSeeds :
          hs = [i \in Handles |-> ssd_create(N, IF i = 1 THEN pA ELSE pB, seed)]
    /\ tel = [i \in Handles |-> BlankTelemetry]
    /\ last = NoCall
    /\ jumpPi = [i \in Handles |-> UniformPolicy(hs[i])]
    /\ sm = NoSoftmax
    /\ sys = NoSystem
    /\ eng = NoEngine
    /\ nops = 0

\* where the relax loop's write through a slot past the end of indices lands
\* when it is not in the stepped handle's own matrix: nowhere that matters (0),
\* or in the heap block of another handle
FarTargets(i) ==
    IF Cardinality(Strays(hs[i])) > 1 THEN {0} \cup (Live \ {i}) ELSE {0}

\* h->kappa[pos] = max(h->kappa[pos] - eps_relax, kappa_min) with pos outside
\* the stepped handle's matrix, landing on entry 0 of handle b's matrix
StrayRelax(b, prm) == [b EXCEPT !.kappa[0] = RelaxEntry(@, prm)]

\* the handles and the caller's telemetry record once ssd_step(hs[i], ...) has
\* returned res
StepAloneReturns(i, res, far) ==
    /\ hs' = [k \in Handles |->
                IF k = i THEN res.h
                ELSE IF k = far /\ res.call.did_jump THEN StrayRelax(hs[k], res.h.prm)
                ELSE hs[k]]
    /\ tel' = [tel EXCEPT ![i] = res.out]
    /\ last' = [res.call EXCEPT !.h = i]
    /\ jumpPi' = [jumpPi EXCEPT ![i] = IF res.call.did_jump THEN res.h.pi ELSE @]

\* ssd_step(hs[i], p, dt, &tel[i])
StepAlone(i, p, dt, stray, far) ==
    /\ nops < MaxOps
    /\ StepAloneReturns(i, ssd_step(hs[i], p, dt, tel[i], stray), far)
    /\ nops' = nops + 1
    /\ UNCHANGED <<sm, sys, eng>>

NextIso ==
    \/ \E i \in Handles, p \in Drives, dt \in Steps :
          \E stray \in Strays(hs[i]), far \in FarTargets(i) :
             StepAlone(i, p, dt, stray, far)
    \/ \E i \in Handles, in \in SetChoices : SetParams(i, in)
    \/ \E i \in Handles, row \in {0, 1}, len \in {1, 4} :
          GetKappaRow(i, row, CallerBuffer, len, FALSE)

SpecIso == InitIso /\ [][NextIso]_vars

----------------------------------------------------------------------------
(* A NeuroSSDSystem: its NeuroCore, and its handle in hs[1] *)

SystemSizes == {0, 2}

\* in milliseconds: none, and one hundred seconds
NeuroSteps == {0, 100000}

UnknownEvent == "blessing"

\* neuro states at the ends of [0,1]
LowNeuro ==
    [DA |-> 0, S5 |-> 1000, NE |-> 1000, AD |-> 0, END |-> 1000, OXT |-> 0,
     CORT |-> 1000]

HighNeuro ==
    [DA |-> 1000, S5 |-> 0, NE |-> 0, AD |-> 1000, END |-> 0, OXT |-> 1000,
     CORT |-> 0]

\* prior parameter values of a direct MapNeuroToSSD call
PriorParams == {DefaultParams, SignParams, NoisyParams}

InitNeuro ==
    /\ \E N \in SystemSizes, seed \in MultiSeeds :
          hs = [i \in Handles |-> IF i = 1 THEN NeuroSSDSystem(N, seed) ELSE NullHandle]
    /\ tel = [i \in Handles |-> BlankTelemetry]
    /\ last = NoCall
    /\ jumpPi = [i \in Handles |-> UniformPolicy(hs[i])]
    /\ sm = NoSoftmax
    /\ sys = NoSystem
    /\ eng = NoEngine
    /\ nops = 0

\* the system once Tick has remapped (m) and its ssd_step has returned res
SysTickReturns(m, res) ==
    /\ hs' = [hs EXCEPT ![1] = res.h]
    /\ tel' = [tel EXCEPT ![1] = res.out]
    /\ last' = [res.call EXCEPT !.h = 1]
    /\ jumpPi' = [jumpPi EXCEPT ![1] = IF res.call.did_jump THEN res.h.pi ELSE @]
    /\ sys' = [sys EXCEPT !.x = m.n, !.x0 = sys.x, !.op = "tick", !.id = "",
                          !.ticks = IF Len(@) = 0 THEN <<[n |-> m.n, in |-> m.in, out |-> m.out]>>
                                    ELSE <<@[Len(@)], [n |-> m.n, in |-> m.in, out |-> m.out]>>]

SysTickStep(m, p, dt, stray) ==
    SysTickReturns(m, ssd_step(m.h, p, dt, tel[1], stray))

\* NeuroSSDSystem::Tick(p, dt, &tel[1])
SysTick(p, dt, stray) ==
    /\ nops < MaxOps
    /\ SysTickStep(TickRemap(sys.x, hs[1], dt), p, dt, stray)
    /\ nops' = nops + 1
    /\ UNCHANGED <<sm, eng>>

\* NeuroSSDSystem::ApplyEvent(id), which is neuro.ApplyEvent(id)
SysApplyEvent(id) ==
    /\ nops < MaxOps
    /\ sys' = [sys EXCEPT !.x = NeuroApplyEvent(sys.x, id), !.x0 = sys.x,
                          !.op = "event", !.id = id]
    /\ nops' = nops + 1
    /\ UNCHANGED <<hs, tel, last, jumpPi, sm, eng>>

\* neuro.Tick(dt) on the system's NeuroCore
SysNeuroTick(dt) ==
    /\ nops < MaxOps
    /\ sys' = [sys EXCEPT !.x = NeuroTick(sys.x, dt), !.x0 = sys.x,
                          !.op = "neuro_tick", !.id = ""]
    /\ nops' = nops + 1
    /\ UNCHANGED <<hs, tel, last, jumpPi, sm, eng>>

\* MapNeuroToSSD(n, prm) on a NeuroState and an SSDParams of the caller's
CallMap(n, prm) ==
    /\ nops < MaxOps
    /\ sys' = [sys EXCEPT !.op = "map", !.id = "",
                          !.map = [n |-> n, in |-> prm, out |-> MapNeuroToSSD(n, prm)]]
    /\ nops' = nops + 1
    /\ UNCHANGED <<hs, tel, last, jumpPi, sm, eng>>

NextNeuro ==
    \/ \E p \in Drives, dt \in Steps :
          \E stray \in Strays(hs[1]) : SysTick(p, dt, stray)
    \/ \E id \in EventIds \cup {UnknownEvent} : SysApplyEvent(id)
    \/ \E dt \in NeuroSteps : SysNeuroTick(dt)
    \/ \E n \in {sys.x, LowNeuro, HighNeuro}, prm \in PriorParams : CallMap(n, prm)

SpecNeuro == InitNeuro /\ [][NextNeuro]_vars

----------------------------------------------------------------------------
(* Two handles created alike, hs[1] stepped by ssd_core.cpp and hs[2] by     *)
(* ssd_align_leap_dll.cpp, with the same random draws                        *)

TwinParams == {DefaultParams, HotParams}

InitTwin ==
    /\ \E N \in Sizes, p \in TwinParams, seed \in Seeds :
          hs = [i \in Handles |-> ssd_create(N, p, seed)]
    /\ tel = [i \in Handles |-> BlankTelemetry]
    /\ last = NoCall
    /\ jumpPi = [i \in Handles |-> UniformPolicy(hs[i])]
    /\ sm = NoSoftmax
    /\ sys = NoSystem
    /\ eng = NoEngine
    /\ nops = 0

\* ssd_step(p, dt) of each implementation on its handle
StepTwin(p, dt, stray) ==
    /\ nops < MaxOps
    /\ StepPairReturns(ssd_step(hs[1], p, dt, tel[1], stray),
                       ssd_step_dll(hs[2], p, dt, tel[2], stray))
    /\ nops' = nops + 1
    /\ UNCHANGED <<sm, sys, eng>>

NextTwin ==
    \/ \E p \in Drives, dt \in Steps :
          \E stray \in Strays(hs[1]) : StepTwin(p, dt, stray)
    \/ \E in \in SetChoices : SetParamsPair(in)

SpecTwin == InitTwin /\ [][NextTwin]_vars

----------------------------------------------------------------------------
(* The C API of ssd_api.cpp on one system: hs[1] is sys->ssd_handle, tel[1]  *)
(* the caller's telemetry record                                             *)

ApiSizes == {-1, 0, 2}

\* the caller's telemetry record as the caller left it before any call
CallerTelemetry == [BlankTelemetry EXCEPT !.current = -1, !.did_jump = -1]

\* what an SSDTelemetry local that nothing wrote can hold in one of its fields
Unwritten == {-7000, 0}

\* neurossd_create(N, seed): the ssd_handle of the system returned.  The
\* pointer returned is new NeuroSSDSystem(N, seed), null only if that throws.
neurossd_create(N, seed) == NeuroSSDSystem(N, seed)

InitApi ==
    /\ \E N \in ApiSizes, seed \in MultiSeeds :
          hs = [i \in Handles |-> IF i = 1 THEN neurossd_create(N, seed) ELSE NullHandle]
    /\ tel = [i \in Handles |-> CallerTelemetry]
    /\ last = NoCall
    /\ jumpPi = [i \in Handles |-> UniformPolicy(hs[i])]
    /\ sm = NoSoftmax
    /\ sys = NoSystem
    /\ eng = NoEngine
    /\ nops = 0

\* the system once the query's ssd_step(sys->ssd_handle, 0.0, 0.0, &telem) has
\* returned res and the query returns ret
QueryReturns(op, res, ret) ==
    /\ hs' = [hs EXCEPT ![1] = res.h]
    /\ last' = [res.call EXCEPT !.h = 1, !.ret = ret]
    /\ jumpPi' = [jumpPi EXCEPT ![1] = IF res.call.did_jump THEN res.h.pi ELSE @]
    /\ sys' = [sys EXCEPT !.x0 = sys.x, !.op = op, !.id = ""]

\* neurossd_get_current_node(sys): telem.current, which nothing wrote when the
\* handle is null
neurossd_get_current_node(res, unwritten) ==
    /\ nops < MaxOps
    /\ QueryReturns("get_current_node", res,
                    IF hs[1].valid THEN res.out.current ELSE unwritten)
    /\ nops' = nops + 1
    /\ UNCHANGED <<tel, sm, eng>>

\* neurossd_get_heat_level(sys): telem.E
neurossd_get_heat_level(res, unwritten) ==
    /\ nops < MaxOps
    /\ QueryReturns("get_heat_level", res,
                    IF hs[1].valid THEN res.out.E ELSE unwritten)
    /\ nops' = nops + 1
    /\ UNCHANGED <<tel, sm, eng>>

NextApi ==
    \/ \E p \in Drives, dt \in Steps :
          \E stray \in Strays(hs[1]) : SysTick(p, dt, stray)
    \/ \E id \in {"praise", "insult_god", UnknownEvent} : SysApplyEvent(id)
    \/ \E unwritten \in (IF hs[1].valid THEN {0} ELSE Unwritten) :
          neurossd_get_current_node(ssd_step(hs[1], 0, 0, BlankTelemetry, -1), unwritten)
    \/ \E unwritten \in (IF hs[1].valid THEN {0} ELSE Unwritten) :
          neurossd_get_heat_level(ssd_step(hs[1], 0, 0, BlankTelemetry, -1), unwritten)

SpecApi == InitApi /\ [][NextApi]_vars

----------------------------------------------------------------------------
(* softmax_temp called directly, on logits and a temperature of any sign *)

MaxLogits == 3

LogitValues == {-1000, 0, 500}

\* in TSCALE units: -0.3, 0, 1e-6, 0.3, 2.0
Temperatures == {-300000, 0, 1, 300000, 2000000}

InitSoftmax ==
    /\ hs = [i \in Handles |-> NullHandle]
    /\ tel = [i \in Handles |-> BlankTelemetry]
    /\ last = NoCall
    /\ jumpPi = [i \in Handles |-> <<>>]
    /\ \E n \in 1 .. MaxLogits :
          \E logits \in [0 .. n - 1 -> LogitValues], T \in Temperatures :
             sm = [called |-> FALSE, n |-> n, logits |-> logits, T |-> T, out |-> <<>>]
    /\ sys = NoSystem
    /\ eng = NoEngine
    /\ nops = 0

CallSoftmax ==
    /\ ~sm.called
    /\ sm' = [sm EXCEPT !.called = TRUE, !.out = softmax_temp(sm.logits, sm.T, sm.n)]
    /\ UNCHANGED <<hs, tel, last, jumpPi, sys, eng, nops>>

NextSoftmax == CallSoftmax

SpecSoftmax == InitSoftmax /\ [][NextSoftmax]_vars

----------------------------------------------------------------------------
(* One caller of a universal engine: evaluations, configuration changes,     *)
(* resets and statistics reports, one at a time.                             *)

EngineConfigs == {DefaultConfig, LowPrecisionConfig, NoCacheConfig}

\* the evaluations made before the first one the model follows
PriorEvaluations == {0, CacheLimit - 1}

StructureIds == {"s1", "s2"}

StabilityValues == {200, 800}

StructureCounts == {0, 1}

PrecisionValues == {0, 900}

Inputs ==
    {InputOf(sid, st, n, mp) : sid \in StructureIds, st \in StabilityValues,
                               n \in StructureCounts, mp \in PrecisionValues}

InitEngine ==
    /\ hs = [i \in Handles |-> NullHandle]
    /\ tel = [i \in Handles |-> BlankTelemetry]
    /\ last = NoCall
    /\ jumpPi = [i \in Handles |-> <<>>]
    /\ sm = NoSoftmax
    /\ sys = NoSystem
    /\ \E config \in EngineConfigs, n \in PriorEvaluations : eng = EngineAfter(config, n)
    /\ nops = 0

\* the engine as a call finds it
Before(e) == [e EXCEPT !.call = NoEngineCall]

\* ssd_evaluate_universal_system returned r for the input in
EvaluateReturns(in, r) ==
    /\ eng' = [r.e EXCEPT
                 !.counted = IF r.ret \in {SSD_SUCCESS, SSD_WARNING_LOW_CONFIDENCE}
                             THEN @ + 1 ELSE @,
                 !.call = [op |-> "evaluate", in |-> in, ret |-> r.ret,
                           result |-> r.result, stats |-> <<>>, pre |-> Before(eng)]]
    /\ nops' = nops + 1
    /\ UNCHANGED <<hs, tel, last, jumpPi, sm, sys>>

Evaluate(in) ==
    /\ nops < MaxOps
    /\ EvaluateReturns(in, evaluate_system(eng, in, CallerResult))

SetConfig(config) ==
    /\ nops < MaxOps
    /\ eng' = [ssd_universal_set_config(eng, config) EXCEPT
                 !.call = [NoEngineCall EXCEPT
                             !.op = "set_config",
                             !.ret = IF config = NullConfig
                                     THEN SSD_ERROR_INVALID_INPUT ELSE SSD_SUCCESS,
                             !.pre = Before(eng)]]
    /\ nops' = nops + 1
    /\ UNCHANGED <<hs, tel, last, jumpPi, sm, sys>>

Reset ==
    /\ nops < MaxOps
    /\ eng' = [ssd_universal_reset(eng) EXCEPT
                 !.counted = 0,
                 !.call = [NoEngineCall EXCEPT !.op = "reset", !.pre = Before(eng)]]
    /\ nops' = nops + 1
    /\ UNCHANGED <<hs, tel, last, jumpPi, sm, sys>>

GetStats ==
    /\ nops < MaxOps
    /\ eng' = [eng EXCEPT
                 !.call = [NoEngineCall EXCEPT
                             !.op = "get_stats",
                             !.stats = ssd_universal_get_stats(eng),
                             !.pre = Before(eng)]]
    /\ nops' = nops + 1
    /\ UNCHANGED <<hs, tel, last, jumpPi, sm, sys>>

NextEngine ==
    \/ \E in \in Inputs : Evaluate(in)
    \/ \E config \in EngineConfigs \cup {NullConfig} : SetConfig(config)
    \/ Reset
    \/ GetStats

SpecEngine == InitEngine /\ [][NextEngine]_vars

----------------------------------------------------------------------------
(* Several threads on one universal engine.  A thread's pc names the access  *)
(* it is executing; the step that leaves the pc completes it.  A lock_guard  *)
(* is taken by the step that enters the guarded block and released by the    *)
(* step that leaves it.                                                      *)

Threads == {1, 2}

ThreadConfigs == {DefaultConfig, NoCacheConfig}

ThreadInputs ==
    {InputOf(sid, 200, n, 0) : sid \in StructureIds, n \in StructureCounts}

InitThreads ==
    /\ hs = [i \in Handles |-> NullHandle]
    /\ tel = [i \in Handles |-> BlankTelemetry]
    /\ last = NoCall
    /\ jumpPi = [i \in Handles |-> <<>>]
    /\ sm = NoSoftmax
    /\ sys = NoSystem
    /\ \E config \in ThreadConfigs, n \in PriorEvaluations : eng = EngineAfter(config, n)
    /\ nops = 0

\* thread t is at one of the pcs at
At(t, at) == eng.pc[t] \in at

\* a thread other than t is at one of the pcs at
OtherAt(t, at) == \E u \in Threads \ {t} : At(u, at)

\* thread t calls ssd_evaluate_universal_system: the input validation and the
\* test of config.enable_cache
CallEvaluate(t, in) ==
    /\ nops < MaxOps
    /\ At(t, {"idle"})
    /\ eng' = [eng EXCEPT
                 !.pc[t] = IF ~ValidInput(in) THEN "idle"
                           ELSE IF eng.config.enable_cache # 0 THEN "lock_lookup"
                           ELSE "store_test",
                 !.local[t] = [NoEngineCall EXCEPT
                                 !.op = "evaluate", !.in = in,
                                 !.ret = IF ValidInput(in) THEN 0
                                         ELSE SSD_ERROR_INVALID_INPUT]]
    /\ nops' = nops + 1
    /\ UNCHANGED <<hs, tel, last, jumpPi, sm, sys>>

\* std::lock_guard<std::mutex> lock(cache_mutex) before the lookup
LockLookup(t) ==
    /\ At(t, {"lock_lookup"})
    /\ eng.cache_mutex = 0
    /\ eng' = [eng EXCEPT !.pc[t] = "find", !.cache_mutex = t]
    /\ UNCHANGED <<hs, tel, last, jumpPi, sm, sys, nops>>

\* cache.find(hash_key): on a hit the stored result is copied, on a miss the
\* guarded block is left
Find(t) ==
    /\ At(t, {"find"})
    /\ eng' = IF calculate_hash(eng.local[t].in) \in DOMAIN eng.cache
              THEN [eng EXCEPT
                      !.pc[t] = "hit",
                      !.local[t].result = eng.cache[calculate_hash(eng.local[t].in)]]
              ELSE [eng EXCEPT
                      !.pc[t] = "store_test",
                      !.cache_mutex = 0]
    /\ UNCHANGED <<hs, tel, last, jumpPi, sm, sys, nops>>

\* cache_hits++; return SSD_SUCCESS
Hit(t) ==
    /\ At(t, {"hit"})
    /\ eng' = [eng EXCEPT
                 !.pc[t] = "idle", !.cache_mutex = 0,
                 !.cache_hits = @ + 1, !.counted = @ + 1,
                 !.local[t].ret = SSD_SUCCESS]
    /\ UNCHANGED <<hs, tel, last, jumpPi, sm, sys, nops>>

\* the result is zeroed and the analyses run; then
\* if (config.enable_cache && cache.size() < 1000)
StoreTest(t) ==
    /\ At(t, {"store_test"})
    /\ eng' = [eng EXCEPT
                 !.pc[t] = IF eng.config.enable_cache # 0 /\ CacheHasRoom(eng)
                           THEN "lock_store" ELSE "lock_stats",
                 !.local[t].result = Analysed(eng.local[t].in, eng.config)]
    /\ UNCHANGED <<hs, tel, last, jumpPi, sm, sys, nops>>

\* std::lock_guard<std::mutex> lock(cache_mutex) before the insertion
LockStore(t) ==
    /\ At(t, {"lock_store"})
    /\ eng.cache_mutex = 0
    /\ eng' = [eng EXCEPT !.pc[t] = "insert", !.cache_mutex = t]
    /\ UNCHANGED <<hs, tel, last, jumpPi, sm, sys, nops>>

\* cache[hash_key] = entry
Insert(t) ==
    /\ At(t, {"insert"})
    /\ eng' = [eng EXCEPT
                 !.pc[t] = "lock_stats", !.cache_mutex = 0,
                 !.cache = CachePut(@, calculate_hash(eng.local[t].in),
                                    eng.local[t].result)]
    /\ UNCHANGED <<hs, tel, last, jumpPi, sm, sys, nops>>

\* update_statistics: std::lock_guard<std::mutex> lock(stats_mutex)
LockStats(t) ==
    /\ At(t, {"lock_stats"})
    /\ eng.stats_mutex = 0
    /\ eng' = [eng EXCEPT !.pc[t] = "update", !.stats_mutex = t]
    /\ UNCHANGED <<hs, tel, last, jumpPi, sm, sys, nops>>

\* update_statistics: the counters; then the return code is set and returned
Update(t) ==
    /\ At(t, {"update"})
    /\ eng' = [eng EXCEPT
                 !.pc[t] = "idle", !.stats_mutex = 0,
                 !.total_evaluations = @ + 1, !.scores = Min(@ + 1, 100),
                 !.counted = @ + 1,
                 !.local[t].ret = IF eng.local[t].result.calculation_confidence < 300
                                  THEN SSD_WARNING_LOW_CONFIDENCE ELSE SSD_SUCCESS,
                 !.local[t].result.return_code =
                     IF eng.local[t].result.calculation_confidence < 300
                     THEN SSD_WARNING_LOW_CONFIDENCE ELSE SSD_SUCCESS]
    /\ UNCHANGED <<hs, tel, last, jumpPi, sm, sys, nops>>

\* thread t calls ssd_universal_get_stats
CallGetStats(t) ==
    /\ nops < MaxOps
    /\ At(t, {"idle"})
    /\ eng' = [eng EXCEPT !.pc[t] = "get_stats",
                          !.local[t] = [NoEngineCall EXCEPT !.op = "get_stats"]]
    /\ nops' = nops + 1
    /\ UNCHANGED <<hs, tel, last, jumpPi, sm, sys>>

\* ssd_universal_get_stats reads the counters and cache.size(); it takes no lock
ReadStats(t) ==
    /\ At(t, {"get_stats"})
    /\ eng' = [eng EXCEPT !.pc[t] = "idle",
                          !.local[t].stats = ssd_universal_get_stats(eng)]
    /\ UNCHANGED <<hs, tel, last, jumpPi, sm, sys, nops>>

\* thread t calls ssd_universal_reset
CallReset(t) ==
    /\ nops < MaxOps
    /\ At(t, {"idle"})
    /\ eng' = [eng EXCEPT !.pc[t] = "reset",
                          !.local[t] = [NoEngineCall EXCEPT !.op = "reset"]]
    /\ nops' = nops + 1
    /\ UNCHANGED <<hs, tel, last, jumpPi, sm, sys>>

\* what a store of the reset can come to: it takes effect (FALSE), or, made
\* while another thread writes the same object, it is lost (TRUE)
RacedStore(t, writers) == IF OtherAt(t, writers) THEN BOOLEAN ELSE {FALSE}

\* ssd_universal_reset clears the cache and the counters; it takes no lock
ClearAll(t) ==
    /\ At(t, {"reset"})
    /\ \E cacheLost \in RacedStore(t, {"insert"}),
          statsLost \in RacedStore(t, {"update"}),
          hitsLost \in RacedStore(t, {"hit"}) :
          eng' = [eng EXCEPT
                    !.pc[t] = "idle",
                    !.cache = IF cacheLost THEN @ ELSE <<>>,
                    !.others = IF cacheLost THEN @ ELSE 0,
                    !.total_evaluations = IF statsLost THEN @ ELSE 0,
                    !.scores = IF statsLost THEN @ ELSE 0,
                    !.cache_hits = IF hitsLost THEN @ ELSE 0,
                    !.counted = 0]
    /\ UNCHANGED <<hs, tel, last, jumpPi, sm, sys, nops>>

NextThreads ==
    \E t \in Threads :
       \/ \E in \in ThreadInputs : CallEvaluate(t, in)
       \/ LockLookup(t)
       \/ Find(t)
       \/ Hit(t)
       \/ StoreTest(t)
       \/ LockStore(t)
       \/ Insert(t)
       \/ LockStats(t)
       \/ Update(t)
       \/ CallGetStats(t)
       \/ ReadStats(t)
       \/ CallReset(t)
       \/ ClearAll(t)

SpecThreads == InitThreads /\ [][NextThreads]_vars

----------------------------------------------------------------------------
(* The claims *)

\* handle i was just stepped (a live handle, so the step ran)
Stepped(i) == last.op = "step" /\ last.h = i /\ last.pre.valid

\* handle i was just stepped and the step took the jump branch
Jumped(i) == Stepped(i) /\ last.did_jump

\* C1: after every ssd_step on a valid handle every inertia entry is at least
\* the installed kappa_min, on the jump branch as on the other
C1_InertiaFloor ==
    \A i \in Handles :
        Stepped(i) =>
            \A e \in DOMAIN hs[i].kappa : hs[i].kappa[e] >= hs[i].prm.kappa_min

\* C2: after every ssd_step on a valid handle the heat E of the handle and of
\* the telemetry is at least 0, jump ticks included
C2_HeatNonNegative ==
    \A i \in Handles : Stepped(i) => hs[i].E >= 0 /\ tel[i].E >= 0

\* C3: two handles created with the same N, seed and parameters and given the
\* same calls hold the same state and report the same telemetry after every
\* call
C3_Determinism == hs[1] = hs[2] /\ tel[1] = tel[2]

\* C4: a step with drive = 0 and dt = 0 leaves the inertia matrix, the heat
\* and the current node as they were
C4_NoDriveStability ==
    \A i \in Handles :
        (Stepped(i) /\ last.p = 0 /\ last.dt = 0) =>
            /\ hs[i].kappa = last.pre.kappa
            /\ hs[i].E = last.pre.E
            /\ hs[i].current = last.pre.current

\* C5: a step with dt = 0 never takes the jump branch: did_jump is 0, pi is
\* as before, E is the clamped heat (not cooled), and weight and inertia move
\* by the fixed nudge at most, never by a rewire
C5_NoJumpAtZeroDt ==
    \A i \in Handles :
        (Stepped(i) /\ last.dt = 0) =>
            /\ tel[i].did_jump = 0
            /\ ~last.did_jump
            /\ hs[i].pi = last.pre.pi
            /\ hs[i].E = Max(last.pre.E, 0)
            /\ \A e \in DOMAIN hs[i].w :
                  /\ hs[i].w[e] - last.pre.w[e] \in
                        {0} \cup (IF e = idx(last.pre.current, last.nudged, hs[i].N)
                                  THEN {NudgeStep} ELSE {})
                  /\ hs[i].kappa[e] - Max(last.pre.kappa[e], last.pre.prm.kappa_min) \in
                        {0} \cup (IF e = idx(last.pre.current, last.nudged, hs[i].N)
                                  THEN {NudgeStep} ELSE {})

\* C5 witness: a step with dt = 0 whose draw u is 0 while the jump rate is
\* positive
C5_Witness ==
    \E i \in Handles :
        Stepped(i) /\ last.dt = 0 /\ last.u = 0 /\ tel[i].h > 0 /\ last.p # 0

\* the inertia of row `row` after Phase 2 of the last step
RowAfterPhase2(row, k) ==
    LET e == idx(row, k, last.pre.N)
    IN UpdateKappa(last.pre.kappa[e], last.j[e], last.p, last.dt, last.pre.prm)

\* pi[0] + ... + pi[k]
CdfThrough(pi, k) == SumTo(pi, k + 1)

C7_PolicyIsDistribution ==
    \A i \in Handles :
        hs[i].valid =>
            /\ DOMAIN hs[i].pi = 0 .. hs[i].N - 1
            /\ \A k \in DOMAIN hs[i].pi : hs[i].pi[k] >= 0
            /\ Abs(SumTo(hs[i].pi, hs[i].N) - SCALE) <= hs[i].N

\* C7 witness: a jump wrote a policy with two different positive entries
C7_Witness ==
    \E i \in Handles :
        /\ Jumped(i)
        /\ \E k, m \in DOMAIN hs[i].pi :
              0 < hs[i].pi[k] /\ hs[i].pi[k] < hs[i].pi[m]

\* C8: softmax_temp with T <= 1e-8 returns exactly the one-hot vector at the
\* largest logit, the lowest index among equals
C8_ZeroTemperatureOneHot ==
    (sm.called /\ 100 * sm.T <= 1) =>
        \E arg \in 0 .. sm.n - 1 :
            /\ \A k \in 0 .. sm.n - 1 : sm.logits[k] <= sm.logits[arg]
            /\ \A k \in 0 .. arg - 1 : sm.logits[k] < sm.logits[arg]
            /\ sm.out = [k \in 0 .. sm.n - 1 |-> IF k = arg THEN SCALE ELSE 0]

\* C8 witness: T <= 1e-8 and the largest logit occurs twice, not at index 0
C8_Witness ==
    /\ sm.called /\ 100 * sm.T <= 1 /\ sm.n = 3
    /\ sm.logits[0] < sm.logits[1] /\ sm.logits[1] = sm.logits[2]

\* C9: a step that does not jump leaves pi unchanged, so pi is 1/N until the
\* first jump and the policy of the most recent jump afterwards
C9_PolicyKeptWithoutJump ==
    \A i \in Handles :
        hs[i].valid =>
            /\ hs[i].pi = jumpPi[i]
            /\ (Stepped(i) /\ ~last.did_jump) => hs[i].pi = last.pre.pi

\* C9 witness: a step without a jump on a handle whose last jump left a policy
\* that is not the initial one
C9_Witness ==
    \E i \in Handles :
        Stepped(i) /\ ~last.did_jump /\ hs[i].pi # UniformPolicy(hs[i])

\* C10: the temperature held in a handle is at least 1e-6 in every reachable
\* state, from ssd_create on
C10_TemperatureFloor ==
    \A i \in Handles : hs[i].valid => hs[i].T >= 1

\* C11: no step lowers a weight entry, whatever parameters are installed
C11_WeightMonotone ==
    \A i \in Handles :
        Stepped(i) =>
            \A e \in DOMAIN hs[i].w : hs[i].w[e] >= last.pre.w[e]

\* ssd_create just returned into some pointer
Created == last.op = "create" /\ last.h \in Handles

C14_NullStepZeroes ==
    (last.op = "step" /\ last.h \in Handles /\ ~last.pre.valid) =>
        /\ hs[last.h] = NullHandle
        /\ tel[last.out] = BlankTelemetry

\* C15: ssd_get_kappa_row returns c with 0 <= c <= N; for a live handle, a
\* buffer and 0 <= row < N, c = min(N, len) and buf[0..c) is inertia[row][0..c),
\* the rest of buf as before; otherwise c = 0 and buf is as before; the
\* handle is never modified
C15_KappaRowContract ==
    (last.op = "get_kappa_row") =>
        LET h == hs[last.h]
            c == last.ret
        IN /\ h = last.pre
           /\ 0 <= c /\ c <= h.N
           /\ IF h.valid /\ last.buf0 # <<>> /\ 0 <= last.row /\ last.row < h.N
              THEN /\ c = Min(h.N, last.len)
                   /\ \A k \in DOMAIN last.buf :
                         last.buf[k] = IF k < c THEN h.kappa[idx(last.row, k, h.N)]
                                       ELSE last.buf0[k]
              ELSE c = 0 /\ last.buf = last.buf0

\* handle i, fresh from ssd_create with N = 3 and the scenario's parameters,
\* was just stepped once with drive 1.0 and dt 1.0
ScenarioStep(i) ==
    /\ Stepped(i) /\ last.p = SCALE /\ last.dt = SCALE
    /\ last.pre.N = 3 /\ last.pre.prm = ScenarioParams
    /\ last.pre.E = 0 /\ \A e \in 0 .. 8 : last.pre.kappa[e] = 0

\* C16: in that step the flow is 0.5 on all 9 edges, J_norm and align_eff are
\* 1.5, Phase 2 raises every inertia entry to 0.15 (so the step leaves each at
\* 0.15, moved only by a rewire of 0.2, a relax of 0.01 or a nudge of 0.05),
\* and E is 0 after Phase 3 and in the telemetry
C16_Scenario ==
    \A i \in Handles :
        ScenarioStep(i) =>
            /\ \A e \in 0 .. 8 : last.j[e] = 500
            /\ tel[i].J_norm = 1500 /\ tel[i].align_eff = 1500
            /\ \A r \in 0 .. 2, k \in 0 .. 2 : RowAfterPhase2(r, k) = 150
            /\ \A e \in 0 .. 8 : hs[i].kappa[e] \in {150, 140, 350, 340, 200}
            /\ UpdateHeat(last.pre.E, last.p, tel[i].J_norm, last.dt, last.pre.prm) = 0
            /\ tel[i].E = 0 /\ hs[i].E = 0

\* C16 witness: the scenario's step, taken without a jump
C16_Witness == \E i \in Handles : ScenarioStep(i) /\ ~last.did_jump

\* C17: a call on one handle leaves every field of the other handle, and the
\* other handle's telemetry record, as they were
C17_Isolation ==
    [][\A i \in Handles : last'.h # i => hs'[i] = hs[i] /\ tel'[i] = tel[i]]_vars

\* the seven values of a neuro state lie in [0,1]
NeuroInUnit(x) ==
    /\ x.DA \in 0 .. SCALE /\ x.S5 \in 0 .. SCALE /\ x.NE \in 0 .. SCALE
    /\ x.AD \in 0 .. SCALE /\ x.END \in 0 .. SCALE /\ x.OXT \in 0 .. SCALE
    /\ x.CORT \in 0 .. SCALE

\* C18: after any Tick and ApplyEvent calls from the default state each of the
\* seven neuro values lies in [0,1], and an ApplyEvent with an id that is not
\* one of the five events leaves the seven values as they were
C18_NeuroBounded ==
    /\ NeuroInUnit(sys.x)
    /\ sys.op = "event" /\ sys.id \notin EventIds => sys.x = sys.x0

\* C18 witness: an unknown event applied to a state in which a Tick of one
\* hundred seconds had overshot the baseline and was clamped to 0
C18_Witness ==
    /\ sys.op = "event" /\ sys.id = UnknownEvent
    /\ sys.x.AD = 0 /\ sys.x.CORT > baseline.CORT

\* the eight fields MapNeuroToSSD writes
Remapped == {"T0", "Theta0", "h0", "eta", "lam", "alpha", "beta_E", "sigma"}

\* the most recent remap, of a Tick or of a direct MapNeuroToSSD call
LastMap == IF sys.op = "tick" THEN sys.ticks[Len(sys.ticks)] ELSE sys.map

\* C19: after every Tick and every MapNeuroToSSD call the mapped parameters
\* have T0, Theta0, h0, sigma in [0,1] and eta, lam, alpha, beta_E >= 1e-6, no
\* other field differs from its prior value, and after a Tick they are the
\* parameters the handle holds
C19_RemapBounded ==
    sys.op \in {"tick", "map"} =>
        /\ \A f \in {"T0", "Theta0", "h0", "sigma"} : LastMap.out[f] \in 0 .. SCALE
        /\ \A f \in {"eta", "lam", "alpha", "beta_E"} : LastMap.out[f] >= PosFloor
        /\ \A f \in DOMAIN LastMap.in \ Remapped : LastMap.out[f] = LastMap.in[f]
        /\ sys.op = "tick" /\ hs[1].valid => hs[1].prm = LastMap.out

\* C19 witness: a Tick whose remap of lam fell below the floor and was raised
\* to it
C19_Witness ==
    /\ sys.op = "tick" /\ hs[1].valid
    /\ LastMap.in.lam > PosFloor /\ hs[1].prm.lam = PosFloor

\* C20: two ticks of a system that map the same neuro state install the same
\* eight remapped fields
C20_RemapIsFunction ==
    Len(sys.ticks) = 2 /\ sys.ticks[1].n = sys.ticks[2].n =>
        \A f \in Remapped : sys.ticks[1].out[f] = sys.ticks[2].out[f]

\* C21: the two ssd_step implementations, from equal states with equal
\* parameters, calls and random draws, leave equal handles and telemetry
\* records that agree in every field, H included
C21_TwinEquivalent == hs[1] = hs[2] /\ tel[1] = tel[2]

\* C22: a step that jumps changes exactly the weight entry (c, s), by
\* delta_w, with c the current node before the step and s the reported
\* rewired_to; E is c0_cool times its Phase-3 value; current is s and the
\* telemetry has did_jump = 1 and current = rewired_to = s.  A step that does
\* not jump has did_jump = 0 and rewired_to equal to the new current.
C22_JumpFrame ==
    \A i \in Handles :
        Stepped(i) =>
            IF last.did_jump
            THEN LET pre == last.pre
                     c == pre.current
                     s == tel[i].rewired_to
                     E3 == UpdateHeat(pre.E, last.p, tel[i].J_norm, last.dt, pre.prm)
                 IN /\ s \in 0 .. pre.N - 1
                    /\ hs[i].w = [pre.w EXCEPT ![c * pre.N + s] = @ + pre.prm.delta_w]
                    /\ hs[i].E = MulFx(E3, pre.prm.c0_cool)
                    /\ tel[i].E = hs[i].E
                    /\ hs[i].current = s
                    /\ tel[i].did_jump = 1 /\ tel[i].current = s
            ELSE /\ tel[i].did_jump = 0
                 /\ tel[i].rewired_to = hs[i].current
                 /\ tel[i].current = hs[i].current

\* C22 witness: a jump to another node that cools a positive heat
C22_Witness ==
    \E i \in Handles :
        /\ Stepped(i) /\ last.did_jump
        /\ tel[i].rewired_to # last.pre.current
        /\ hs[i].E > 0

\* the edges whose weight the last step changed
WeightChanged(i) == {e \in DOMAIN hs[i].w : hs[i].w[e] # last.pre.w[e]}

\* the value the deterministic choice gives node k on the row of node c, in
\* units of 1e-6
MoveValue(i, c, k) ==
    (TSCALE \div SCALE) * hs[i].kappa[idx(c, k, hs[i].N)] - (IF k = c THEN 1 ELSE 0)

\* C23: a step without a jump nudges at most one edge, (current, k) with
\* k # current, weight and inertia each by 0.05; the new current is the
\* lowest-index k with the largest inertia[current, k], less 1e-6 at
\* k = current, on the row of the old current after the nudge; with N >= 2 and
\* that row's entries all equal it is the lowest-index node other than the old
\* current
C23_NoJumpMove ==
    \A i \in Handles :
        (Stepped(i) /\ ~last.did_jump) =>
            LET pre == last.pre
                N == pre.N
                c == pre.current
                n == hs[i].current
            IN /\ Cardinality(WeightChanged(i)) <= 1
               /\ \A r \in 0 .. N - 1, k \in 0 .. N - 1 :
                     LET e == idx(r, k, N)
                     IN IF e \in WeightChanged(i)
                        THEN /\ r = c /\ k # c
                             /\ hs[i].w[e] = pre.w[e] + 50
                             /\ hs[i].kappa[e] = RowAfterPhase2(r, k) + 50
                        ELSE hs[i].kappa[e] = RowAfterPhase2(r, k)
               /\ n \in 0 .. N - 1
               /\ \A k \in 0 .. N - 1 : MoveValue(i, c, k) <= MoveValue(i, c, n)
               /\ \A k \in 0 .. n - 1 : MoveValue(i, c, k) < MoveValue(i, c, n)
               /\ (N >= 2 /\ \A k \in 0 .. N - 1 : hs[i].kappa[idx(c, k, N)] = hs[i].kappa[idx(c, 0, N)])
                     => n = (IF c = 0 THEN 1 ELSE 0)

\* C23 witness: a step without a jump from node 0 of three, its row all equal
\* and positive, that moves to node 1
C23_Witness ==
    \E i \in Handles :
        /\ Stepped(i) /\ ~last.did_jump /\ last.pre.N = 3 /\ last.pre.current = 0
        /\ hs[i].kappa[0] > 0
        /\ hs[i].kappa[1] = hs[i].kappa[0] /\ hs[i].kappa[2] = hs[i].kappa[0]
        /\ hs[i].current = 1

\* the inertia of edge e after the rewire of the last step, a jump from the
\* node pre.current to the node s
KappaAfterRewire(e, s) ==
    LET N == last.pre.N
    IN RowAfterPhase2(e \div N, e % N)
       + (IF e = idx(last.pre.current, s, N) THEN last.pre.prm.delta_kappa ELSE 0)

\* C24: in every jump step, whatever parameters are installed, the relax count
\* lies in 1 .. N*N and the step relaxes that many distinct edges of the
\* matrix, each to max(kappa_min, inertia - eps_relax), every other inertia
\* entry keeping its value after the rewire
C24_RelaxWithinMatrix ==
    \A i \in Handles :
        Jumped(i) =>
            LET M == last.pre.N * last.pre.N
                prm == last.pre.prm
                s == tel[i].rewired_to
            IN /\ last.relax_count \in 1 .. M
               /\ \E R \in SUBSET (0 .. M - 1) :
                     /\ Cardinality(R) = last.relax_count
                     /\ \A e \in 0 .. M - 1 :
                           hs[i].kappa[e] =
                              IF e \in R
                              THEN Max(prm.kappa_min, KappaAfterRewire(e, s) - prm.eps_relax)
                              ELSE KappaAfterRewire(e, s)

\* C25: neurossd_get_current_node and neurossd_get_heat_level leave the SSD
\* state (inertia, weight, E, current, pi, the random stream) as it was, and
\* neurossd_get_current_node returns the current node as the last tick left it
C25_QueriesReadOnly ==
    (sys.op \in {"get_current_node", "get_heat_level"} /\ last.pre.valid) =>
        /\ hs[1] = last.pre
        /\ sys.op = "get_current_node" => last.ret = last.pre.current

\* C26: no system whose ssd_handle is null is reachable through the API
\* (neurossd_create with N <= 0 returns no system), and neurossd_tick on a
\* system always writes the caller's telemetry record
C26_NoNullHandleSystem ==
    /\ hs[1].valid
    /\ sys.op = "tick" => tel[1] # CallerTelemetry

\* C27: with the cache enabled, every statistics report has a cache_hit_rate
\* in [0,1] (cache_hits <= total_evaluations), and total_evaluations is the
\* number of evaluation calls that returned SSD_SUCCESS or
\* SSD_WARNING_LOW_CONFIDENCE since creation or the last reset
C27_HitRateInUnit ==
    eng.config.enable_cache # 0 =>
        /\ eng.cache_hits <= eng.total_evaluations
        /\ eng.total_evaluations = eng.counted
        /\ eng.call.op = "get_stats" =>
              eng.call.stats.cache_hit_rate >= 0 /\ eng.call.stats.cache_hit_rate <= SCALE

\* what an engine with enable_cache = 0, otherwise like e, answers to in:
\* the code returned and the result
Uncached(e, in) ==
    evaluate_system([e EXCEPT !.config.enable_cache = 0], in, CallerResult)

\* the last call answered as r does
AnsweredAs(r) == eng.call.ret = r.ret /\ eng.call.result = r.result

\* C28: cache transparency: an evaluation by an engine with the cache enabled
\* returns the code and the analysis fields that the same engine without the
\* cache returns for the same inputs
C28_CacheTransparent ==
    (eng.call.op = "evaluate" /\ eng.call.pre.config.enable_cache # 0) =>
        AnsweredAs(Uncached(eng.call.pre, eng.call.in))

\* C29: whatever evaluations, configuration changes and resets were made one
\* at a time, the cache holds at most 1000 entries and every statistics report
\* has cache_size <= max_cache_size = 1000; a reset leaves the cache empty,
\* total_evaluations = 0 and cache_hits = 0, and the config as it was
C29_CacheBounded ==
    /\ CacheSize(eng) <= 1000
    /\ eng.call.op = "get_stats" =>
          /\ eng.call.stats.max_cache_size = 1000
          /\ eng.call.stats.cache_size <= eng.call.stats.max_cache_size
    /\ eng.call.op = "reset" =>
          /\ CacheSize(eng) = 0
          /\ eng.total_evaluations = 0
          /\ eng.cache_hits = 0
          /\ eng.config = eng.call.pre.config

\* C29, witness: with 1000 entries in the cache an input that is not in it
\* was evaluated
C29_Witness ==
    /\ eng.call.op = "evaluate"
    /\ eng.call.pre.config.enable_cache # 0
    /\ ValidInput(eng.call.in)
    /\ CacheSize(eng.call.pre) = 1000
    /\ calculate_hash(eng.call.in) \notin DOMAIN eng.call.pre.cache

\* the pcs at which a thread reads or writes the cache map
CacheAccess == {"find", "hit", "store_test", "insert", "get_stats", "reset"}

\* the pcs at which a thread reads or writes cache_hits, which the evaluation
\* keeps under cache_mutex
HitsAccess == {"hit", "get_stats", "reset"}

\* the pcs at which a thread reads or writes total_evaluations,
\* total_computation_time or recent_accuracy_scores
StatsAccess == {"update", "get_stats", "reset"}

\* C30: with several threads evaluating, reading the statistics and resetting,
\* every access of the cache map is made with cache_mutex held and every
\* access of the statistics counters with their mutex held, no two threads
\* access the same one at a time, and the cache holds at most 1000 entries
C30_MutualExclusion ==
    /\ \A t \in Threads : At(t, CacheAccess) => eng.cache_mutex = t
    /\ \A t \in Threads : At(t, HitsAccess) => eng.cache_mutex = t
    /\ \A t \in Threads : At(t, StatsAccess) => eng.stats_mutex = t
    /\ \A t \in Threads :
          /\ At(t, CacheAccess) => ~OtherAt(t, CacheAccess)
          /\ At(t, HitsAccess) => ~OtherAt(t, HitsAccess)
          /\ At(t, StatsAccess) => ~OtherAt(t, StatsAccess)
    /\ CacheSize(eng) <= 1000

====
